---- MODULE Spec2Model ----
(***************************************************************************)
(* A model of the acled_api client library: the encoding of typed filter   *)
(* values into query parameters (Where, AcledQuery, DeletedQuery), the     *)
(* decoding of the two-shape response envelope (Response, Response::into,  *)
(* the TryFrom converters) and the page-by-page fetch loop                  *)
(* (Api::get_acled, Api::get_deleted, Api::query).                          *)
(*                                                                         *)
(* A Rust String is a TLA+ string where the code only copies, compares or  *)
(* concatenates it, and a sequence of one-character strings where the code *)
(* scans it (the raw fields that are parsed into dates and numbers).       *)
(*                                                                         *)
(* A Vec of records, and the JSON array it is read from, is a sequence of  *)
(* runs: Run(x, n) stands for n consecutive elements equal to x. A page of *)
(* DEFAULT_LIMIT records is then a value of a few runs.                     *)
(***************************************************************************)
EXTENDS Integers, Sequences, FiniteSets, TLC

VARIABLES
    pc,          \* position of the caller: "idle", "query", "await", "done"
    endpoint,    \* "acled" (get_acled) or "deleted" (get_deleted)
    parameters,  \* let parameters = query.as_parameters()
    page,        \* the loop variable of `for page in 1..`
    all_events,  \* let mut all_events = Vec::new()
    result,      \* what the call gave: Ok(events), Err(error), a panic, or nothing yet
    requests,    \* the parameter lists the transport was asked for, in order
    responses,   \* what the transport answered, in order (indices into a body table)
    encOp,       \* encoder under test: "idle", "where", "acled", "deleted"
    encIn,       \* its input
    encOut,      \* its output
    decOp,       \* decoder under test: "idle", "acled", "deleted"
    decIn,       \* the Response value handed to Response::into
    decOut       \* what Response::into gave

fetchVars == <<pc, endpoint, parameters, page, all_events, result, requests, responses>>
encVars == <<encOp, encIn, encOut>>
decVars == <<decOp, decIn, decOut>>
vars == <<pc, endpoint, parameters, page, all_events, result, requests, responses,
          encOp, encIn, encOut, decOp, decIn, decOut>>

-----------------------------------------------------------------------------
(* Decimal text of integers: what to_string gives for u32, u64 and usize.  *)

Digit(d) ==
    CASE d = 0 -> "0" [] d = 1 -> "1" [] d = 2 -> "2" [] d = 3 -> "3"
      [] d = 4 -> "4" [] d = 5 -> "5" [] d = 6 -> "6" [] d = 7 -> "7"
      [] d = 8 -> "8" [] d = 9 -> "9"

RECURSIVE Dec(_)
Dec(n) == IF n < 10 THEN Digit(n) ELSE Dec(n \div 10) \o Digit(n % 10)

(* Zero-padded decimal of width w, as chrono writes the parts of a date.   *)
RECURSIVE Pad(_, _)
Pad(n, w) == IF w <= 1 THEN Dec(n) ELSE
             IF n < 10 THEN "0" \o Pad(n, w - 1)
             ELSE Pad(n \div 10, w - 1) \o Digit(n % 10)

-----------------------------------------------------------------------------
(* Vec<T> as a sequence of runs.                                           *)

Run(x, n) == [item |-> x, n |-> n]

\* Vec::len
RECURSIVE VecLen(_)
VecLen(v) == IF Len(v) = 0 THEN 0 ELSE v[1].n + VecLen(Tail(v))

-----------------------------------------------------------------------------
(* Region: the enum's variants and their numeric codes (region.rs).        *)

Regions ==
    {"WesternAfrica", "MiddleAfrica", "EasternAfrica", "SouthernAfrica",
     "NorthernAfrica", "SouthAsia", "SoutheastAsia", "MiddleEast", "Europe",
     "CaucasusAndCentralAsia", "CentralAmerica", "SouthAmerica", "Caribbean",
     "EastAsia", "NorthAmerica", "Oceania", "Antarctica"}

\* `*self as usize`: the discriminant of the variant
RegionCode(r) ==
    CASE r = "WesternAfrica" -> 1
      [] r = "MiddleAfrica" -> 2
      [] r = "EasternAfrica" -> 3
      [] r = "SouthernAfrica" -> 4
      [] r = "NorthernAfrica" -> 5
      [] r = "SouthAsia" -> 7
      [] r = "SoutheastAsia" -> 9
      [] r = "MiddleEast" -> 11
      [] r = "Europe" -> 12
      [] r = "CaucasusAndCentralAsia" -> 13
      [] r = "CentralAmerica" -> 14
      [] r = "SouthAmerica" -> 15
      [] r = "Caribbean" -> 16
      [] r = "EastAsia" -> 17
      [] r = "NorthAmerica" -> 18
      [] r = "Oceania" -> 19
      [] r = "Antarctica" -> 20

\* strum Display / EnumString: the to_string attribute, or the variant's name
RegionName(r) ==
    CASE r = "WesternAfrica" -> "Western Africa"
      [] r = "MiddleAfrica" -> "Middle Africa"
      [] r = "EasternAfrica" -> "Eastern Africa"
      [] r = "SouthernAfrica" -> "Southern Africa"
      [] r = "NorthernAfrica" -> "Northern Africa"
      [] r = "SouthAsia" -> "South Asia"
      [] r = "SoutheastAsia" -> "Southeast Asia"
      [] r = "MiddleEast" -> "Middle East"
      [] r = "Europe" -> "Europe"
      [] r = "CaucasusAndCentralAsia" -> "Caucasus and Central Asia"
      [] r = "CentralAmerica" -> "Central America"
      [] r = "SouthAmerica" -> "South America"
      [] r = "Caribbean" -> "Caribbean"
      [] r = "EastAsia" -> "East Asia"
      [] r = "NorthAmerica" -> "North America"
      [] r = "Oceania" -> "Oceania"
      [] r = "Antarctica" -> "Antarctica"

-----------------------------------------------------------------------------
(* AsParameter: one implementation per scalar type. A value of the model   *)
(* carries no type, so the type parameter T of Where<T> is the argument ty.*)

\* the year as chrono's Display writes it: four digits for the years 0..9999,
\* otherwise "{:+05}", the sign and at least four digits
YearText(y) ==
    IF y >= 0 /\ y <= 9999 THEN Pad(y, 4)
    ELSE IF y < 0 THEN "-" \o Pad(0 - y, 4)
    ELSE "+" \o Pad(y, 4)

\* impl AsParameter for NaiveDate: to_string, chrono's Display
as_parameter_NaiveDate(d) ==
    YearText(d.year) \o "-" \o Pad(d.month, 2) \o "-" \o Pad(d.day, 2)

as_parameter_String(s) == s

as_parameter_u32(n) == Dec(n)

as_parameter_u64(n) == Dec(n)

as_parameter_Region(r) == Dec(RegionCode(r))

as_parameter(ty, v) ==
    CASE ty = "String" -> as_parameter_String(v)
      [] ty = "u32" -> as_parameter_u32(v)
      [] ty = "u64" -> as_parameter_u64(v)
      [] ty = "NaiveDate" -> as_parameter_NaiveDate(v)
      [] ty = "Region" -> as_parameter_Region(v)

-----------------------------------------------------------------------------
(* Where<T> and its encoding.                                              *)

Unspecified == [tag |-> "Unspecified"]
Matches(v) == [tag |-> "Matches", v |-> v]
Equal(v) == [tag |-> "Equal", v |-> v]
Like(v) == [tag |-> "Like", v |-> v]
GreaterThan(v) == [tag |-> "GreaterThan", v |-> v]
GreaterThanOrEqual(v) == [tag |-> "GreaterThanOrEqual", v |-> v]
Between(a, b) == [tag |-> "Between", a |-> a, b |-> b]

\* every filter value over the scalars of V
WhereOver(V) ==
    {Unspecified}
    \cup {Matches(v) : v \in V} \cup {Equal(v) : v \in V} \cup {Like(v) : v \in V}
    \cup {GreaterThan(v) : v \in V} \cup {GreaterThanOrEqual(v) : v \in V}
    \cup {Between(a, b) : a \in V, b \in V}

Where_as_parameters_swapped(w, name, ty) ==
    CASE w.tag = "Unspecified" -> <<>>
      [] w.tag = "Matches" -> << <<name, as_parameter(ty, w.v)>> >>
      [] w.tag = "Equal" ->
            << <<name, as_parameter(ty, w.v)>>, <<name \o "_where", "=">> >>
      [] w.tag = "Like" ->
            << <<name, as_parameter(ty, w.v)>>, <<name \o "_where", "LIKE">> >>
      [] w.tag = "GreaterThan" ->
            << <<name, as_parameter(ty, w.v)>>, <<name \o "_where", ">">> >>
      [] w.tag = "GreaterThanOrEqual" ->
            << <<name, as_parameter(ty, w.v)>>, <<name \o "_where", ">=">> >>
      [] w.tag = "Between" ->
            << <<name, as_parameter(ty, w.a) \o "|" \o as_parameter(ty, w.b)>>,
               <<name \o "_where", "BETWEEN">> >>

Where_as_parameters(w, name, ty) ==
    CASE w.tag = "Unspecified" -> <<>>
      [] w.tag = "Matches" -> << <<name, as_parameter(ty, w.v)>> >>
      [] w.tag = "Equal" ->
            << <<name \o "_where", "=">>, <<name, as_parameter(ty, w.v)>> >>
      [] w.tag = "Like" ->
            << <<name \o "_where", "LIKE">>, <<name, as_parameter(ty, w.v)>> >>
      [] w.tag = "GreaterThan" ->
            << <<name \o "_where", ">">>, <<name, as_parameter(ty, w.v)>> >>
      [] w.tag = "GreaterThanOrEqual" ->
            << <<name \o "_where", ">=">>, <<name, as_parameter(ty, w.v)>> >>
      [] w.tag = "Between" ->
            << <<name \o "_where", "BETWEEN">>,
               <<name, as_parameter(ty, w.a) \o "|" \o as_parameter(ty, w.b)>> >>

AcledQuery_as_parameters_reordered(q) ==
    Where_as_parameters(q.country, "country", "String")
    \o Where_as_parameters(q.id, "event_id_cnty", "String")
    \o Where_as_parameters(q.year, "year", "u32")
    \o Where_as_parameters(q.date, "event_date", "NaiveDate")
    \o Where_as_parameters(q.region, "region", "Region")
    \o Where_as_parameters(q.timestamp, "timestamp", "u64")

AcledQuery_as_parameters(q) ==
    Where_as_parameters(q.country, "country", "String")
    \o Where_as_parameters(q.id, "event_id_cnty", "String")
    \o Where_as_parameters(q.year, "year", "u32")
    \o Where_as_parameters(q.region, "region", "Region")
    \o Where_as_parameters(q.date, "event_date", "NaiveDate")
    \o Where_as_parameters(q.timestamp, "timestamp", "u64")

DeletedQuery_as_parameters(q) ==
    Where_as_parameters(q.id, "event_id_cnty", "String")
    \o Where_as_parameters(q.timestamp, "deleted_timestamp", "u64")

\* #[derive(Default)]: every field Unspecified
AcledQuery_default ==
    [country |-> Unspecified, id |-> Unspecified, year |-> Unspecified,
     region |-> Unspecified, date |-> Unspecified, timestamp |-> Unspecified]

DeletedQuery_default == [id |-> Unspecified, timestamp |-> Unspecified]

-----------------------------------------------------------------------------
(* The inputs of the encoders.                                             *)

Date(y, m, d) == [year |-> y, month |-> m, day |-> d]

StringValues == {"Germany", "GER-123", "Ger*"}
YearValues == {2022, 2024}
TimestampValues == {0, 1710025200}
DateValues ==
    {Date(2024, 2, 28), Date(2023, 12, 1), Date(987, 6, 5),
     Date(10000, 1, 1), Date(0 - 1, 1, 1)}

\* the (field name, type, filter value) triples Where::as_parameters is called with
WhereInputs ==
    {<<n, "String", w>> : n \in {"country", "event_id_cnty"}, w \in WhereOver(StringValues)}
    \cup {<<"year", "u32", w>> : w \in WhereOver(YearValues)}
    \cup {<<"region", "Region", w>> : w \in WhereOver(Regions)}
    \cup {<<"event_date", "NaiveDate", w>> : w \in WhereOver(DateValues)}
    \cup {<<n, "u64", w>> : n \in {"timestamp", "deleted_timestamp"},
                            w \in WhereOver(TimestampValues)}

AcledQueries ==
    [country : {Unspecified, Matches("Germany"), Like("Ger*")},
     id : {Unspecified, Matches("GER-123"), Equal("GER-123")},
     year : {Unspecified, GreaterThanOrEqual(2022), Between(2022, 2024)},
     region : {Unspecified, Matches("MiddleAfrica"), Equal("Europe")},
     date : {Unspecified, GreaterThan(Date(2024, 2, 28)),
             Between(Date(2023, 12, 1), Date(2024, 2, 28))},
     timestamp : {Unspecified, Matches(0), GreaterThanOrEqual(1710025200)}]

DeletedQueries ==
    [id : WhereOver({"GER-123"}), timestamp : WhereOver(TimestampValues)]

-----------------------------------------------------------------------------
(* The encoders applied to one input each.                                 *)

ApplyWhere ==
    /\ encOp = "idle"
    /\ \E i \in WhereInputs :
          /\ encOp' = "where"
          /\ encIn' = [name |-> i[1], ty |-> i[2], w |-> i[3]]
          /\ encOut' = Where_as_parameters(i[3], i[1], i[2])
    /\ UNCHANGED <<fetchVars, decVars>>

ApplyAcledQuery ==
    /\ encOp = "idle"
    /\ \E q \in AcledQueries :
          /\ encOp' = "acled"
          /\ encIn' = q
          /\ encOut' = AcledQuery_as_parameters(q)
    /\ UNCHANGED <<fetchVars, decVars>>

ApplyDeletedQuery ==
    /\ encOp = "idle"
    /\ \E q \in DeletedQueries :
          /\ encOp' = "deleted"
          /\ encIn' = q
          /\ encOut' = DeletedQuery_as_parameters(q)
    /\ UNCHANGED <<fetchVars, decVars>>

-----------------------------------------------------------------------------
(* Scanning raw strings: a string that is parsed is a sequence of          *)
(* one-character strings.                                                   *)

Digits == {"0", "1", "2", "3", "4", "5", "6", "7", "8", "9"}

IsDigit(c) == c \in Digits

DigitVal(c) ==
    CASE c = "0" -> 0 [] c = "1" -> 1 [] c = "2" -> 2 [] c = "3" -> 3
      [] c = "4" -> 4 [] c = "5" -> 5 [] c = "6" -> 6 [] c = "7" -> 7
      [] c = "8" -> 8 [] c = "9" -> 9

Drop(s, n) == SubSeq(s, n + 1, Len(s))

Take(s, n) == SubSeq(s, 1, n)

MinOf(S) == CHOOSE x \in S : \A y \in S : x <= y

MaxOf(S) == CHOOSE x \in S : \A y \in S : x >= y

AllDigits(s) == \A i \in 1..Len(s) : IsDigit(s[i])

\* how many of the first `max` characters of s are digits, counted from the start
DigitsPrefixLen(s, max) ==
    LET top == IF Len(s) < max THEN Len(s) ELSE max
    IN  MaxOf({n \in 0..top : \A i \in 1..n : IsDigit(s[i])})

\* char::is_whitespace: the characters of Unicode's White_Space property; one
\* that a TLA+ string cannot hold is written as its code point
Whitespace ==
    {" ", "\t", "\n", "\f", "\r", "U+000B", "U+0085", "U+00A0", "U+1680",
     "U+2000", "U+2001", "U+2002", "U+2003", "U+2004", "U+2005", "U+2006",
     "U+2007", "U+2008", "U+2009", "U+200A", "U+2028", "U+2029", "U+202F",
     "U+205F", "U+3000"}

\* str::trim_start: s without its leading whitespace characters
TrimStart(s) ==
    Drop(s, MaxOf({n \in 0..Len(s) : \A i \in 1..n : s[i] \in Whitespace}))

\* s without its leading zeros
StripZeros(s) == Drop(s, MaxOf({n \in 0..Len(s) : \A i \in 1..n : s[i] = "0"}))

\* the number a digit string of at most nine significant digits denotes
RECURSIVE NatOf(_)
NatOf(s) == IF Len(s) = 0 THEN 0
            ELSE 10 * NatOf(Take(s, Len(s) - 1)) + DigitVal(s[Len(s)])

\* lexicographic order on digit strings of one length
DigitsLess(a, b) ==
    \E i \in 1..Len(a) :
        /\ \A j \in 1..(i - 1) : a[j] = b[j]
        /\ DigitVal(a[i]) < DigitVal(b[i])

-----------------------------------------------------------------------------
(* NaiveDate::parse_from_str(s, "%Y-%m-%d"), as chrono 0.4 parses it: each *)
(* number may follow whitespace, an unsigned year is one to four digits, a *)
(* signed one any number of digits, month and day are one or two digits,   *)
(* nothing may follow the day, and the three numbers must name a day of    *)
(* the proleptic Gregorian calendar.                                       *)

IsLeap(y) == (y % 4 = 0 /\ y % 100 # 0) \/ y % 400 = 0

DaysInMonth(y, m) ==
    IF m \in {4, 6, 9, 11} THEN 30
    ELSE IF m = 2 THEN (IF IsLeap(y) THEN 29 ELSE 28)
    ELSE 31

Fail == [ok |-> FALSE]

\* s split after its first n characters, which are a number; no number if n < 1
SplitNumber(s, n) ==
    IF n < 1 THEN Fail ELSE [ok |-> TRUE, digits |-> Take(s, n), rest |-> Drop(s, n)]

\* chrono's scan::number(s, 1, max): one to max digits, and the rest
ScanDigits(s, max) == SplitNumber(s, DigitsPrefixLen(s, max))

\* a numeric item: trim_start, then scan::number(s, 1, max)
ScanNumber(s, max) == ScanDigits(TrimStart(s), max)

\* the literal "-" and then a numeric item of at most two digits
ScanDashNumber(s) ==
    IF Len(s) > 0 /\ s[1] = "-" THEN ScanNumber(Drop(s, 1), 2) ELSE Fail

\* the value of the year's digits, negated after a "-"; out of range when
\* more than six digits are significant
YearValue(neg, num) ==
    IF ~num.ok \/ Len(StripZeros(num.digits)) > 6 THEN Fail
    ELSE [ok |-> TRUE,
          value |-> IF neg THEN 0 - NatOf(StripZeros(num.digits))
                    ELSE NatOf(StripZeros(num.digits)),
          rest |-> num.rest]

\* the year of a trimmed string: after a sign any number of digits, else up to four
ScanSignedYear(s) ==
    IF Len(s) > 0 /\ s[1] \in {"-", "+"}
    THEN YearValue(s[1] = "-", ScanDigits(Drop(s, 1), Len(s)))
    ELSE YearValue(FALSE, ScanDigits(s, 4))

ScanYear(s) == ScanSignedYear(TrimStart(s))

\* Parsed::to_naive_date: the three numbers name a day of the calendar
DateFromParts(y, m, d) ==
    IF /\ y >= -262143 /\ y <= 262142    \* chrono's MIN_YEAR and MAX_YEAR
       /\ m >= 1 /\ m <= 12
       /\ d >= 1 /\ d <= DaysInMonth(y, m)
    THEN [ok |-> TRUE, value |-> Date(y, m, d)]
    ELSE Fail

\* the day was scanned: nothing may follow it
AfterDay(y, m, d) ==
    IF ~d.ok \/ Len(d.rest) # 0 THEN Fail ELSE DateFromParts(y, m, NatOf(d.digits))

AfterMonth(y, m) ==
    IF ~m.ok THEN Fail ELSE AfterDay(y, NatOf(m.digits), ScanDashNumber(m.rest))

AfterYear(y) ==
    IF ~y.ok THEN Fail ELSE AfterMonth(y.value, ScanDashNumber(y.rest))

NaiveDate_parse_from_str(s) == AfterYear(ScanYear(s))

-----------------------------------------------------------------------------
(* str::parse::<u64>: an optional "+", then one or more digits and nothing *)
(* else, and a value below 2^64. The value is computed for the strings of  *)
(* the model, which stay below 2^31.                                       *)

U64_MAX_DIGITS ==
    <<"1", "8", "4", "4", "6", "7", "4", "4", "0", "7",
      "3", "7", "0", "9", "5", "5", "1", "6", "1", "5">>

\* the significant digits denote a number above u64::MAX
U64Overflows(sig) ==
    \/ Len(sig) > Len(U64_MAX_DIGITS)
    \/ Len(sig) = Len(U64_MAX_DIGITS) /\ DigitsLess(U64_MAX_DIGITS, sig)

\* the digits after the optional sign
u64_from_digits(body) ==
    IF Len(body) = 0 \/ ~AllDigits(body) THEN Fail
    ELSE IF U64Overflows(StripZeros(body)) THEN Fail
    ELSE [ok |-> TRUE, value |-> NatOf(StripZeros(body))]

u64_from_str(s) ==
    IF Len(s) > 1 /\ s[1] = "+" THEN u64_from_digits(Drop(s, 1)) ELSE u64_from_digits(s)

-----------------------------------------------------------------------------
(* str::parse::<f64>: an optional sign, then either a decimal number (at   *)
(* least one digit around an optional point, then an optional exponent of  *)
(* at least one digit) or one of inf, infinity, nan in any letter case.    *)
(* The value is kept as an exact decimal, mant * 10^exp with mant free of  *)
(* trailing zeros: the rounding to the nearest f64 is not modelled.        *)

Lower(c) ==
    CASE c = "I" -> "i" [] c = "N" -> "n" [] c = "F" -> "f" [] c = "T" -> "t"
      [] c = "Y" -> "y" [] c = "A" -> "a" [] OTHER -> c

LowerAll(s) == [i \in 1..Len(s) |-> Lower(s[i])]

RECURSIVE Normalise(_, _, _)
Normalise(neg, mant, exp) ==
    IF mant = 0 THEN [neg |-> neg, mant |-> 0, exp |-> 0]
    ELSE IF mant % 10 = 0 THEN Normalise(neg, mant \div 10, exp + 1)
    ELSE [neg |-> neg, mant |-> mant, exp |-> exp]

\* the digits of an exponent, after its sign
ExponentValue(neg, digs) ==
    IF Len(digs) = 0 \/ ~AllDigits(digs) THEN Fail
    ELSE [ok |-> TRUE, value |-> IF neg THEN 0 - NatOf(digs) ELSE NatOf(digs)]

\* what follows "e" or "E"
ScanExponentDigits(t) ==
    IF Len(t) > 0 /\ t[1] \in {"-", "+"}
    THEN ExponentValue(t[1] = "-", Drop(t, 1))
    ELSE ExponentValue(FALSE, t)

\* the exponent part, s being all that follows the mantissa
ScanExponent(s) ==
    IF Len(s) = 0 THEN [ok |-> TRUE, value |-> 0]
    ELSE IF s[1] \notin {"e", "E"} THEN Fail
    ELSE ScanExponentDigits(Drop(s, 1))

\* inf, infinity and nan
f64_special(neg, body) ==
    IF LowerAll(body) \in {<<"i", "n", "f">>, <<"i", "n", "f", "i", "n", "i", "t", "y">>}
    THEN [ok |-> TRUE, value |-> [neg |-> neg, special |-> "inf"]]
    ELSE IF LowerAll(body) = <<"n", "a", "n">>
    THEN [ok |-> TRUE, value |-> [neg |-> neg, special |-> "nan"]]
    ELSE Fail

\* the mantissa's digits and the exponent were scanned
f64_finite(neg, int, frac, e) ==
    IF ~e.ok THEN Fail
    ELSE [ok |-> TRUE, value |-> Normalise(neg, NatOf(int \o frac), e.value - Len(frac))]

\* the fraction: rest is what follows the point, nf the digits it starts with
f64_fraction(neg, body, int, rest, nf) ==
    IF Len(int) + nf = 0 THEN f64_special(neg, body)
    ELSE f64_finite(neg, int, Take(rest, nf), ScanExponent(Drop(rest, nf)))

\* the integer part is the first ni characters of body
f64_mantissa(neg, body, ni) ==
    IF Len(body) > ni /\ body[ni + 1] = "."
    THEN f64_fraction(neg, body, Take(body, ni), Drop(body, ni + 1),
                      DigitsPrefixLen(Drop(body, ni + 1), Len(body)))
    ELSE f64_fraction(neg, body, Take(body, ni), Drop(body, ni), 0)

\* the text after the optional sign
f64_unsigned(neg, body) ==
    IF Len(body) = 0 THEN Fail
    ELSE f64_mantissa(neg, body, DigitsPrefixLen(body, Len(body)))

f64_from_str(s) ==
    IF Len(s) > 0 /\ s[1] \in {"-", "+"}
    THEN f64_unsigned(s[1] = "-", Drop(s, 1))
    ELSE f64_unsigned(FALSE, s)

-----------------------------------------------------------------------------
(* Region::from_str (strum's EnumString): the exact name of one variant.   *)

Region_from_str(s) ==
    IF \E r \in Regions : RegionName(r) = s
    THEN [ok |-> TRUE, value |-> CHOOSE r \in Regions : RegionName(r) = s]
    ELSE [ok |-> FALSE]

-----------------------------------------------------------------------------
(* Error, and the outcome of a call: Ok(events), Err(error), or a panic.   *)

\* Error::ReqwestError(reqwest::Error); what is the reqwest error's own kind
ReqwestError(what) == [type |-> "ReqwestError", inner |-> what]

APIError(m) == [type |-> "APIError", message |-> m]

ParseError(f) == [type |-> "ParseError", field |-> f]

Ok(events) == [kind |-> "Ok", events |-> events]

Err(e) == [kind |-> "Err", error |-> e]

Panic == [kind |-> "Panic"]

-----------------------------------------------------------------------------
(* The converters from the raw records to the typed ones.                  *)

\* the struct expression of try_from: the fields are evaluated in the order
\* written, and the first `?` that meets an Err returns it
AcledEvent_fields_reordered(data, date, timestamp, region, latitude, longitude) ==
    IF ~timestamp.ok THEN Err(ParseError("timestamp"))
    ELSE IF ~date.ok THEN Err(ParseError("event_date"))
    ELSE IF ~region.ok THEN Err(ParseError("region"))
    ELSE IF ~latitude.ok THEN Err(ParseError("latitude"))
    ELSE IF ~longitude.ok THEN Err(ParseError("longitude"))
    ELSE [kind |-> "Ok", event |-> data]

AcledEvent_fields(data, date, timestamp, region, latitude, longitude) ==
    IF ~date.ok THEN Err(ParseError("event_date"))
    ELSE IF ~timestamp.ok THEN Err(ParseError("timestamp"))
    ELSE IF ~region.ok THEN Err(ParseError("region"))
    ELSE IF ~latitude.ok THEN Err(ParseError("latitude"))
    ELSE IF ~longitude.ok THEN Err(ParseError("longitude"))
    ELSE [kind |-> "Ok",
          event |-> [id |-> data.event_id_cnty,
                     date |-> date.value,
                     timestamp |-> timestamp.value,
                     event_type |-> <<data.event_type, data.sub_event_type>>,
                     disorder_type |-> data.disorder_type,
                     region |-> region.value,
                     administrative_region |-> data.admin1,
                     country |-> data.country,
                     latitude |-> latitude.value,
                     longitude |-> longitude.value,
                     note |-> data.notes]]

AcledEvent_try_from(data) ==
    AcledEvent_fields(data,
                      NaiveDate_parse_from_str(data.event_date),
                      u64_from_str(data.timestamp),
                      Region_from_str(data.region),
                      f64_from_str(data.latitude),
                      f64_from_str(data.longitude))

DeletedEvent_fields(data, timestamp) ==
    IF ~timestamp.ok THEN Err(ParseError("deleted_timestamp"))
    ELSE [kind |-> "Ok",
          event |-> [id |-> data.event_id_cnty, timestamp |-> timestamp.value]]

DeletedEvent_try_from(data) ==
    DeletedEvent_fields(data, u64_from_str(data.deleted_timestamp))

\* S::try_from, S being the record type of the endpoint
try_into(ep, data) ==
    IF ep = "acled" THEN AcledEvent_try_from(data) ELSE DeletedEvent_try_from(data)

-----------------------------------------------------------------------------
(* Response<T> and Response::into.                                         *)

\* a u32: its value v when below 2^31, its decimal digits from 2^31 on
U32(n) == [big |-> FALSE, v |-> n, digits |-> <<>>]

U32Big(digits) == [big |-> TRUE, v |-> 0, digits |-> digits]

\* the u32 c equals n, a length or 0
CountIs(c, n) == ~c.big /\ c.v = n

ResponseData(success, count, data) ==
    [variant |-> "Data", success |-> success, count |-> count, data |-> data]

ResponseError(success, count, message) ==
    [variant |-> "Error", success |-> success, count |-> count,
     error |-> [message |-> message]]

\* data.into_iter().map(TryInto::try_into)
map_try_into(ep, data) ==
    [i \in 1..Len(data) |-> Run(try_into(ep, data[i].item), data[i].n)]

\* collect::<Result<Vec<S>, Error>>(): the events, or the first Err in order
collect(rs) ==
    IF \A i \in 1..Len(rs) : rs[i].item.kind = "Ok"
    THEN Ok([i \in 1..Len(rs) |-> Run(rs[i].item.event, rs[i].n)])
    ELSE rs[MinOf({i \in 1..Len(rs) : rs[i].item.kind = "Err"})].item

Response_into_unchecked(ep, r) ==
    IF r.variant = "Data" THEN collect(map_try_into(ep, r.data))
    ELSE Err(APIError(r.error.message))

Response_into_nomessage(ep, r) ==
    IF r.variant = "Data" THEN
        IF ~r.success THEN Panic
        ELSE IF ~CountIs(r.count, VecLen(r.data)) THEN Panic
        ELSE collect(map_try_into(ep, r.data))
    ELSE
        IF r.success THEN Panic
        ELSE IF ~CountIs(r.count, 0) THEN Panic
        ELSE Err(APIError("request failed"))

Response_into(ep, r) ==
    IF r.variant = "Data" THEN
        IF ~r.success THEN Panic                   \* assert!(success)
        ELSE IF ~CountIs(r.count, VecLen(r.data)) THEN Panic   \* assert_eq!(count as usize, data.len())
        ELSE collect(map_try_into(ep, r.data))
    ELSE
        IF r.success THEN Panic                    \* assert!(!success)
        ELSE IF ~CountIs(r.count, 0) THEN Panic             \* assert_eq!(count, 0)
        ELSE Err(APIError(r.error.message))

-----------------------------------------------------------------------------
(* JSON bodies and their deserialization (serde, #[serde(untagged)]).       *)
(* A JSON value is tagged with its kind; an object is a function from its   *)
(* keys (so no key occurs twice), an array a Vec in runs, a number an       *)
(* integer: its value v when below 2^31 in size, and from 2^31 on its       *)
(* decimal digits, without a leading zero.                                  *)

JStr(s) == [t |-> "str", v |-> s]
JNum(n) == [t |-> "num", big |-> FALSE, v |-> n, digits |-> <<>>]
JBigNum(digits) == [t |-> "num", big |-> TRUE, v |-> 0, digits |-> digits]
JBool(b) == [t |-> "bool", v |-> b]
JArr(a) == [t |-> "arr", v |-> a]
JObj(o) == [t |-> "obj", v |-> o]
NotJson == [t |-> "garbage"]

\* the key k of the object j holds a value of the kind
HasField(j, k, kind) == j.t = "obj" /\ k \in DOMAIN j.v /\ j.v[k].t = kind

\* the i-th element of a Vec in runs, 1 <= i <= VecLen(v)
RECURSIVE VecAt(_, _)
VecAt(v, i) == IF i <= v[1].n THEN v[1].item ELSE VecAt(Tail(v), i - v[1].n)

\* the fields of the raw record types, in the order of their declaration
AcledDataFields ==
    <<"event_id_cnty", "event_date", "timestamp", "disorder_type", "event_type",
      "sub_event_type", "country", "region", "admin1", "latitude", "longitude",
      "notes">>

DeletedDataFields == <<"event_id_cnty", "deleted_timestamp">>

ErrorDataFields == <<"message">>

\* the fields of T, the raw record type of the endpoint
DataFields(ep) == IF ep = "acled" THEN AcledDataFields ELSE DeletedDataFields

FieldNames(names) == {names[i] : i \in 1..Len(names)}

\* #[derive(Deserialize)] on a struct reads an object that has every field
\* (other keys are ignored), or an array of exactly the fields' values in the
\* order of declaration
IsStruct(j, names) ==
    \/ j.t = "obj" /\ FieldNames(names) \subseteq DOMAIN j.v
    \/ j.t = "arr" /\ VecLen(j.v) = Len(names)

\* the JSON value of field k of a struct read from j
Field(j, names, k) ==
    IF j.t = "obj" THEN j.v[k]
    ELSE VecAt(j.v, CHOOSE i \in 1..Len(names) : names[i] = k)

\* every field of the struct is a JSON string
IsStringStruct(j, names) ==
    IsStruct(j, names) /\ \A k \in FieldNames(names) : Field(j, names, k).t = "str"

\* struct AcledData / DeletedData: every field a String
IsRawData(ep, j) == IsStringStruct(j, DataFields(ep))

RawData(ep, j) ==
    [k \in FieldNames(DataFields(ep)) |-> Field(j, DataFields(ep), k).v]

U32_MAX_DIGITS == <<"4", "2", "9", "4", "9", "6", "7", "2", "9", "5">>

\* the JSON number n is a u32: 0 <= n <= u32::MAX
IsU32(n) ==
    IF n.big
    THEN /\ Len(n.digits) <= Len(U32_MAX_DIGITS)
         /\ ~(Len(n.digits) = Len(U32_MAX_DIGITS) /\ DigitsLess(U32_MAX_DIGITS, n.digits))
    ELSE n.v >= 0 /\ n.v \div 65536 < 65536

\* the u32 `count`
IsCount(j) == HasField(j, "count", "num") /\ IsU32(j.v["count"])

Count(j) ==
    IF j.v["count"].big THEN U32Big(j.v["count"].digits) ELSE U32(j.v["count"].v)

\* the variant Data: an untagged struct variant is read from an object only
MatchesDataShape(ep, j) ==
    /\ HasField(j, "success", "bool")
    /\ IsCount(j)
    /\ HasField(j, "data", "arr")
    /\ \A i \in 1..Len(j.v["data"].v) : IsRawData(ep, j.v["data"].v[i].item)

\* the variant Error
MatchesErrorShape(j) ==
    /\ HasField(j, "success", "bool")
    /\ IsCount(j)
    /\ j.t = "obj" /\ "error" \in DOMAIN j.v
    /\ IsStringStruct(j.v["error"], ErrorDataFields)           \* struct ErrorData

\* serde's untagged enum: the first variant that deserializes, Data before Error
Response_deserialize(ep, j) ==
    IF MatchesDataShape(ep, j) THEN
        [ok |-> TRUE,
         value |-> ResponseData(j.v["success"].v, Count(j),
                      [i \in 1..Len(j.v["data"].v) |->
                          Run(RawData(ep, j.v["data"].v[i].item), j.v["data"].v[i].n)])]
    ELSE IF MatchesErrorShape(j) THEN
        [ok |-> TRUE,
         value |-> ResponseError(j.v["success"].v, Count(j),
                                 Field(j.v["error"], ErrorDataFields, "message").v)]
    ELSE [ok |-> FALSE]

-----------------------------------------------------------------------------
(* Api: the request of one page and the loop of get_acled / get_deleted.   *)

DEFAULT_LIMIT == 5000

Base == "https://api.acleddata.com"

Config == [key |-> "XXXXX", email |-> "foo@example.com"]

\* the URL and the query string Api::query asks the transport for
Api_query_always_page(ep, params, pg) ==
    [url |-> Base \o "/" \o ep \o "/read",
     params |-> params \o << <<"key", Config.key>>, <<"email", Config.email>> >>
                \o << <<"page", Dec(pg)>> >>]

Api_query(ep, params, pg) ==
    [url |-> Base \o "/" \o ep \o "/read",
     params |-> params \o << <<"key", Config.key>>, <<"email", Config.email>> >>
                \o (IF pg > 1 THEN << <<"page", Dec(pg)>> >> ELSE <<>>)]

\* what the transport gives back: an error, or a body
TransportError == [sent |-> FALSE]

Body(j) == [sent |-> TRUE, body |-> j]

\* reqwest's Response::json::<Response<T>>()
Response_json(ep, body) ==
    IF body.t = "garbage" THEN [ok |-> FALSE] ELSE Response_deserialize(ep, body)

\* `?` on an error of the page: the call returns it, and all_events is dropped
Propagate_partial(e, all) == [kind |-> "Err", error |-> e, events |-> all]

Propagate(e, all) == Err(e)

IsLastPage_lt(n) == n < DEFAULT_LIMIT

IsLastPage_empty(n) == n = 0

\* if events.len() != DEFAULT_LIMIT { return Ok(all_events); }

IsLastPage(n) == n # DEFAULT_LIMIT

\* all_events.extend_from_slice(&events)
Extend(all, events) == all \o events

\* the call returns r
Return(pg, r) == [pc |-> "done", page |-> pg, all_events |-> <<>>, result |-> r]

\* the end of the loop's turn, all_events extended by a page of n events
EndOfTurn(pg, all, n) ==
    IF IsLastPage(n) THEN Return(pg, Ok(all))
    ELSE [pc |-> "query", page |-> pg + 1, all_events |-> all,
          result |-> [kind |-> "None"]]

\* response.into::<S>()? and the rest of the turn
AfterInto(all, pg, events) ==
    IF events.kind = "Panic" THEN Return(pg, Panic)
    ELSE IF events.kind = "Err" THEN Return(pg, Propagate(events.error, all))
    ELSE EndOfTurn(pg, Extend(all, events.events), VecLen(events.events))

AfterJson_abort(ep, all, pg, response) ==
    IF ~response.ok THEN Return(pg, Panic)
    ELSE AfterInto(all, pg, Response_into(ep, response.value))

\* .json::<Response<T>>()? and the rest of the turn
AfterJson(ep, all, pg, response) ==
    IF ~response.ok THEN Return(pg, Propagate(ReqwestError("decode"), all))
    ELSE AfterInto(all, pg, Response_into(ep, response.value))

\* one turn of the loop after the request of page pg was answered by `answer`:
\* the caller's next position, the page, the accumulator and the call's result
LoopBody(ep, all, pg, answer) ==
    IF ~answer.sent THEN Return(pg, Propagate(ReqwestError("request"), all))
    ELSE AfterJson(ep, all, pg, Response_json(ep, answer.body))

-----------------------------------------------------------------------------
(* The transport's answers in the model.                                   *)

Chars_2024_02_28 == <<"2", "0", "2", "4", "-", "0", "2", "-", "2", "8">>
Chars_2024_02_30 == <<"2", "0", "2", "4", "-", "0", "2", "-", "3", "0">>
Chars_1710025200 == <<"1", "7", "1", "0", "0", "2", "5", "2", "0", "0">>
Chars_12_5 == <<"1", "2", ".", "5">>
Chars_m1_25e1 == <<"-", "1", ".", "2", "5", "e", "1">>

\* a raw acled record, every field a string, with the given id, date and timestamp
RawAcled(id, date, ts) ==
    [event_id_cnty |-> id, event_date |-> date, timestamp |-> ts,
     disorder_type |-> "Demonstrations", event_type |-> "Protests",
     sub_event_type |-> "Peaceful protest", country |-> "Germany",
     region |-> "Europe", admin1 |-> "Berlin",
     latitude |-> Chars_12_5, longitude |-> Chars_m1_25e1, notes |-> "n"]

RawDeleted(id, ts) == [event_id_cnty |-> id, deleted_timestamp |-> ts]

\* the JSON object of a raw record
JRecord(raw) == JObj([k \in DOMAIN raw |-> JStr(raw[k])])

JAcled(i) == JRecord(RawAcled("GER" \o Dec(i), Chars_2024_02_28, Chars_1710025200))

JDeleted(i) == JRecord(RawDeleted("GER" \o Dec(i), Chars_1710025200))

JGood(ep, i) == IF ep = "acled" THEN JAcled(i) ELSE JDeleted(i)

JBadField(ep, i) ==
    IF ep = "acled"
    THEN JRecord(RawAcled("GER" \o Dec(i), Chars_2024_02_30, Chars_1710025200))
    ELSE JRecord(RawDeleted("GER" \o Dec(i), <<"-", "5">>))

\* the JSON array of a raw record: its fields' values in the order of declaration
JRecordArray(ep, raw) ==
    JArr([i \in 1..Len(DataFields(ep)) |-> Run(JStr(raw[DataFields(ep)[i]]), 1)])

\* a record whose timestamp is a JSON number, not a string
JNumberField(ep, i) ==
    IF ep = "acled"
    THEN JObj([JAcled(i).v EXCEPT !["timestamp"] = JNum(1710025200)])
    ELSE JObj([JDeleted(i).v EXCEPT !["deleted_timestamp"] = JNum(1710025200)])

JSuccess(success, count, data) ==
    JObj([status |-> JNum(200), success |-> JBool(success), count |-> JNum(count),
          data |-> JArr(data)])

JFailure(success, count, message) ==
    JObj([status |-> JNum(403), success |-> JBool(success), count |-> JNum(count),
          error |-> JObj([status |-> JNum(403), message |-> JStr(message)])])

\* n records equal to the good record number i
JPage(ep, i, n) == <<Run(JGood(ep, i), n)>>

\* the answers that end the fetch
LastAnswers(ep) ==
    << TransportError,
       Body(NotJson),
       Body(JStr("Service Unavailable")),
       Body(JObj([success |-> JBool(TRUE), count |-> JNum(0)])),
       Body(JSuccess(TRUE, 1, <<Run(JNumberField(ep, 1), 1)>>)),
       Body(JSuccess(TRUE, 1, <<Run(JArr(<<Run(JStr("GER1"), 1)>>), 1)>>)),
       Body(JSuccess(TRUE, 2, <<Run(JRecordArray(ep, RawData(ep, JGood(ep, 10))), 1), Run(JGood(ep, 11), 1)>>)),
       Body(JObj([success |-> JBool(FALSE), count |-> JNum(0),
                  error |-> JArr(<<Run(JStr("bad key"), 1)>>)])),
       Body(JObj([success |-> JBool(FALSE), count |-> JNum(0),
                  error |-> JArr(<<Run(JStr("bad key"), 2)>>)])),
       Body(JArr(<<Run(JBool(TRUE), 1), Run(JNum(0), 1), Run(JArr(<<>>), 1)>>)),
       Body(JSuccess(TRUE, 0 - 1, <<>>)),
       Body(JObj([success |-> JBool(TRUE), data |-> JArr(<<>>),
                  count |-> JBigNum(<<"4", "2", "9", "4", "9", "6", "7", "2", "9", "6">>)])),
       Body(JObj([success |-> JBool(TRUE), data |-> JArr(<<>>),
                  count |-> JBigNum(U32_MAX_DIGITS)])),
       Body(JObj([success |-> JBool(FALSE), error |-> JObj([message |-> JStr("m")]),
                  count |-> JBigNum(<<"4", "2", "9", "4", "9", "6", "7", "2", "9", "6">>)])),
       Body(JFailure(FALSE, 0, "bad key")),
       Body(JFailure(FALSE, 0, "rate limit")),
       Body(JFailure(FALSE, 1, "bad key")),
       Body(JFailure(TRUE, 0, "bad key")),
       Body(JSuccess(TRUE, 0, <<>>)),
       Body(JSuccess(TRUE, 1, JPage(ep, 3, 1))),
       Body(JSuccess(TRUE, 2, JPage(ep, 4, 1) \o JPage(ep, 5, 1))),
       Body(JSuccess(TRUE, 2, <<Run(JGood(ep, 6), 1), Run(JBadField(ep, 7), 1)>>)),
       Body(JSuccess(TRUE, DEFAULT_LIMIT,
                     <<Run(JGood(ep, 6), DEFAULT_LIMIT - 1), Run(JBadField(ep, 7), 1)>>)),
       Body(JSuccess(TRUE, 2, JPage(ep, 3, 1))),
       Body(JSuccess(TRUE, 1, JPage(ep, 3, 2))),
       Body(JSuccess(TRUE, DEFAULT_LIMIT, JPage(ep, 3, DEFAULT_LIMIT + 1))),
       Body(JSuccess(FALSE, 1, JPage(ep, 3, 1))),
       Body(JSuccess(TRUE, DEFAULT_LIMIT - 1, JPage(ep, 8, DEFAULT_LIMIT - 1))),
       Body(JSuccess(TRUE, DEFAULT_LIMIT + 1, JPage(ep, 9, DEFAULT_LIMIT + 1))) >>

\* the answers after which the fetch asks for the next page
FullAnswers(ep) ==
    << Body(JSuccess(TRUE, DEFAULT_LIMIT, JPage(ep, 1, DEFAULT_LIMIT))),
       Body(JSuccess(TRUE, DEFAULT_LIMIT,
                     JPage(ep, 2, DEFAULT_LIMIT - 1) \o JPage(ep, 1, 1))) >>

AcledAnswers == LastAnswers("acled") \o FullAnswers("acled")

DeletedAnswers == LastAnswers("deleted") \o FullAnswers("deleted")

Answers(ep) == IF ep = "acled" THEN AcledAnswers ELSE DeletedAnswers

\* the queries the fetches of the model are called with
FetchAcledQueries ==
    {[AcledQuery_default EXCEPT !.country = Matches("Germany")],
     [AcledQuery_default EXCEPT !.region = Matches("MiddleAfrica"),
                                !.date = GreaterThan(Date(2024, 2, 28))]}

FetchDeletedQueries ==
    {[DeletedQuery_default EXCEPT !.timestamp = GreaterThanOrEqual(1710025200)]}

\* the fetch of the model stops asking after this many pages
MaxPage == 3

-----------------------------------------------------------------------------
(* The fetch, one action per step of the caller.                           *)

get_acled ==
    /\ pc = "idle"
    /\ \E q \in FetchAcledQueries :
          parameters' = AcledQuery_as_parameters(q)
    /\ endpoint' = "acled"
    /\ all_events' = <<>>
    /\ page' = 1
    /\ pc' = "query"
    /\ UNCHANGED <<result, requests, responses, encVars, decVars>>

get_deleted ==
    /\ pc = "idle"
    /\ \E q \in FetchDeletedQueries :
          parameters' = DeletedQuery_as_parameters(q)
    /\ endpoint' = "deleted"
    /\ all_events' = <<>>
    /\ page' = 1
    /\ pc' = "query"
    /\ UNCHANGED <<result, requests, responses, encVars, decVars>>

\* self.query(endpoint, &parameters, page): the request goes out
query ==
    /\ pc = "query"
    /\ requests' = Append(requests, Api_query(endpoint, parameters, page))
    /\ pc' = "await"
    /\ UNCHANGED <<endpoint, parameters, page, all_events, result, responses,
                   encVars, decVars>>

\* the transport answers and the rest of the loop's turn runs
answered ==
    /\ pc = "await"
    /\ \E a \in DOMAIN Answers(endpoint) :
          LET next == LoopBody(endpoint, all_events, page, Answers(endpoint)[a])
          IN  /\ next.pc = "query" => page < MaxPage
              /\ responses' = Append(responses, a)
              /\ pc' = next.pc
              /\ page' = next.page
              /\ all_events' = next.all_events
              /\ result' = next.result
    /\ UNCHANGED <<endpoint, parameters, requests, encVars, decVars>>

-----------------------------------------------------------------------------
(* Response::into applied to one Response value.                           *)

GoodAcled == RawAcled("GER1", Chars_2024_02_28, Chars_1710025200)

\* strings that do not parse, one per parsed field
BadValue(f) ==
    CASE f = "event_date" -> Chars_2024_02_30
      [] f = "timestamp" -> <<"-", "5">>
      [] f = "region" -> "MiddleAfrica"
      [] f = "latitude" -> <<"1", "2", ",", "5">>
      [] f = "longitude" -> <<>>
      [] f = "deleted_timestamp" -> <<"1", "e", "3">>

ParsedAcledFields == {"event_date", "timestamp", "region", "latitude", "longitude"}

\* the good record with the fields of B made unparsable
AcledWithBad(B) ==
    [k \in DOMAIN GoodAcled |-> IF k \in B THEN BadValue(k) ELSE GoodAcled[k]]

\* more strings for one field each, parsable or not
AcledSamples ==
    {[GoodAcled EXCEPT !.event_date = <<"2", "0", "2", "4", "-", "2", "-", "8">>],
     [GoodAcled EXCEPT !.event_date = <<"2", "8", "/", "0", "2", "/", "2", "0", "2", "4">>],
     [GoodAcled EXCEPT !.event_date = <<"2", "0", "2", "3", "-", "0", "2", "-", "2", "9">>],
     [GoodAcled EXCEPT !.event_date = Chars_2024_02_28 \o <<" ">>],
     [GoodAcled EXCEPT !.event_date =
         <<"\t", "2", "0", "2", "4", "-", "\n", "0", "2", "-", "U+00A0", "2", "8">>],
     [GoodAcled EXCEPT !.event_date = <<"2", "0", "2", "4", " ", "-", "0", "2", "-", "2", "8">>],
     [GoodAcled EXCEPT !.timestamp = <<"\t", "5">>],
     [GoodAcled EXCEPT !.timestamp = <<"+", "0", "5">>],
     [GoodAcled EXCEPT !.timestamp = <<>>],
     [GoodAcled EXCEPT !.timestamp =
         <<"1", "8", "4", "4", "6", "7", "4", "4", "0", "7",
           "3", "7", "0", "9", "5", "5", "1", "6", "1", "6">>],
     [GoodAcled EXCEPT !.region = "Middle Africa"],
     [GoodAcled EXCEPT !.region = "2"],
     [GoodAcled EXCEPT !.latitude = <<".", "5">>],
     [GoodAcled EXCEPT !.latitude = <<"-", "I", "n", "f">>],
     [GoodAcled EXCEPT !.latitude = <<".">>],
     [GoodAcled EXCEPT !.longitude = <<"1", "e">>],
     [GoodAcled EXCEPT !.longitude = <<"1", "0", ".", "e", "-", "2">>]}

AcledRecords ==
    {AcledWithBad(B) : B \in {X \in SUBSET ParsedAcledFields :
                                 Cardinality(X) <= 2 \/ X = ParsedAcledFields}}
    \cup AcledSamples

DeletedRecords ==
    {RawDeleted("GER1", ts) :
        ts \in {Chars_1710025200, <<"+", "0", "5">>, <<"-", "5">>, <<>>,
                BadValue("deleted_timestamp"), <<"7", " ">>}}

RawRecords(ep) == IF ep = "acled" THEN AcledRecords ELSE DeletedRecords

\* a page of the model holds at most this many records
MaxRecords == 2

\* the pages: every sequence of at most MaxRecords records, and one full page
Pages(ep) ==
    UNION {{[i \in 1..n |-> Run(f[i], 1)] : f \in [1..n -> RawRecords(ep)]} :
           n \in 0..MaxRecords}

DataResponses(ep) ==
    UNION {{ResponseData(TRUE, U32(VecLen(d)), d),
            ResponseData(TRUE, U32(VecLen(d) + 1), d),
            ResponseData(TRUE, U32(0), d), ResponseData(FALSE, U32(VecLen(d)), d)} :
           d \in Pages(ep)}
    \cup {ResponseData(TRUE, c, <<Run(CHOOSE r \in RawRecords(ep) : TRUE, DEFAULT_LIMIT)>>) :
             c \in {U32(DEFAULT_LIMIT - 1), U32(DEFAULT_LIMIT), U32(1),
                    U32Big(U32_MAX_DIGITS)}}

ErrorResponses ==
    {ResponseError(s, c, m) :
        s \in BOOLEAN, c \in {U32(0), U32(1), U32Big(U32_MAX_DIGITS)}, m \in {"bad key", "rate limit", ""}}

into_acled ==
    /\ decOp = "idle"
    /\ \E r \in DataResponses("acled") \cup ErrorResponses :
          /\ decOp' = "acled"
          /\ decIn' = r
          /\ decOut' = Response_into("acled", r)
    /\ UNCHANGED <<fetchVars, encVars>>

into_deleted ==
    /\ decOp = "idle"
    /\ \E r \in DataResponses("deleted") \cup ErrorResponses :
          /\ decOp' = "deleted"
          /\ decIn' = r
          /\ decOut' = Response_into("deleted", r)
    /\ UNCHANGED <<fetchVars, encVars>>

InitFetch ==
    /\ pc = "idle"
    /\ endpoint = "none"
    /\ parameters = <<>>
    /\ page = 0
    /\ all_events = <<>>
    /\ result = [kind |-> "None"]
    /\ requests = <<>>
    /\ responses = <<>>

InitEnc == encOp = "idle" /\ encIn = <<>> /\ encOut = <<>>

InitDec == decOp = "idle" /\ decIn = <<>> /\ decOut = <<>>

Init == InitFetch /\ InitEnc /\ InitDec

NextEncode == ApplyWhere \/ ApplyAcledQuery \/ ApplyDeletedQuery

SpecEncode == Init /\ [][NextEncode]_vars

NextDecode == into_acled \/ into_deleted

SpecDecode == Init /\ [][NextDecode]_vars

Next == get_acled \/ get_deleted \/ query \/ answered

Spec == Init /\ [][Next]_vars

-----------------------------------------------------------------------------
(* What the properties below read from a state of the fetch.               *)

NumResp == Len(responses)

\* the i-th answer of the transport
Answer(i) == Answers(endpoint)[responses[i]]

\* what page i gave once requested, answered and decoded
PageOutcome(i) ==
    IF ~Answer(i).sent THEN Err(ReqwestError("request"))
    ELSE IF ~Response_json(endpoint, Answer(i).body).ok THEN Err(ReqwestError("decode"))
    ELSE Response_into(endpoint, Response_json(endpoint, Answer(i).body).value)

PageOk(i) == PageOutcome(i).kind = "Ok"

\* the number of records of a page that decoded
PageLen(i) == VecLen(PageOutcome(i).events)

IsFull(i) == PageOk(i) /\ PageLen(i) = DEFAULT_LIMIT

\* the records of the pages 1..k, in arrival order
RECURSIVE ConcatPages(_)
ConcatPages(k) == IF k = 0 THEN <<>> ELSE ConcatPages(k - 1) \o PageOutcome(k).events

HasPageParam(req, i) == \E j \in 1..Len(req.params) : req.params[j] = <<"page", Dec(i)>>

NoPageParam(req) == \A j \in 1..Len(req.params) : req.params[j][1] # "page"

\* the next page is being asked for: the page number went up by one, and the
\* request that is out, if any, is the one for it
AsksNextPage ==
    /\ pc \in {"query", "await"}
    /\ page = NumResp + 1
    /\ pc = "await" => Len(requests) = NumResp + 1 /\ HasPageParam(requests[page], page)

\* the call returned the records of all the pages so far
ReturnedAll == pc = "done" /\ result = Ok(ConcatPages(NumResp))

-----------------------------------------------------------------------------
(* C1 as claimed: after every page that decoded, a record count strictly   *)
(* below DEFAULT_LIMIT ends the fetch with the accumulator, and every      *)
(* other count (count >= DEFAULT_LIMIT) makes it ask for the next page.    *)
C1_StopsBelowLimit ==
    (NumResp > 0 /\ PageOk(NumResp)) =>
        IF PageLen(NumResp) < DEFAULT_LIMIT THEN ReturnedAll ELSE AsksNextPage

(* C1 as amended: after every page that decoded, a record count different  *)
(* from DEFAULT_LIMIT (below it or above it) ends the fetch with the       *)
(* accumulator, and a count equal to DEFAULT_LIMIT makes it ask for the    *)
(* next page.                                                              *)
C1_StopsOffLimit ==
    (NumResp > 0 /\ PageOk(NumResp)) =>
        IF PageLen(NumResp) # DEFAULT_LIMIT THEN ReturnedAll ELSE AsksNextPage

\* a second page of more than DEFAULT_LIMIT records ended the fetch
C1_Witness ==
    /\ NumResp = 2
    /\ PageOk(2)
    /\ PageLen(2) > DEFAULT_LIMIT
    /\ pc = "done"
    /\ result.kind = "Ok"
    /\ VecLen(result.events) = 2 * DEFAULT_LIMIT + 1

(* C2: requests go out one at a time in page order, request i > 1 only     *)
(* after page i - 1 decoded full; request 1 carries no `page` parameter    *)
(* and request i > 1 carries page=i; and when the pages 1..k-1 were full   *)
(* and page k fell short, exactly k requests were made and the call        *)
(* returned the k pages' records concatenated in arrival order.            *)
C2_KPagesKRequests ==
    /\ Len(requests) \in {NumResp, NumResp + 1}
    /\ \A i \in 2..Len(requests) : IsFull(i - 1)
    /\ \A i \in 1..Len(requests) :
          /\ requests[i].params[Len(parameters) + 1][1] = "key"
          /\ SubSeq(requests[i].params, 1, Len(parameters)) = parameters
          /\ IF i = 1 THEN NoPageParam(requests[i])
             ELSE /\ HasPageParam(requests[i], i)
                  /\ \A k \in 1..MaxPage + 1 : k # i => ~HasPageParam(requests[i], k)
    /\ (NumResp > 0 /\ PageOk(NumResp) /\ PageLen(NumResp) < DEFAULT_LIMIT) =>
          /\ Len(requests) = NumResp
          /\ ReturnedAll

\* two full pages and a short third one: three requests, all records returned
C2_Witness ==
    /\ NumResp = 3
    /\ PageOk(3)
    /\ PageLen(3) = 2
    /\ Len(requests) = 3
    /\ pc = "done"
    /\ result.kind = "Ok"
    /\ VecLen(result.events) = 2 * DEFAULT_LIMIT + 2
    /\ PageOutcome(1).events # PageOutcome(2).events

(* C3: when the request or the decoding of a page fails with an error, the *)
(* call returns that error alone, with none of the records of the earlier  *)
(* pages, and no request follows the failing page.                         *)
C3_AllOrNothing ==
    (NumResp > 0 /\ PageOutcome(NumResp).kind = "Err") =>
        /\ pc = "done"
        /\ result.kind = "Err"
        /\ DOMAIN result = {"kind", "error"}
        /\ result.error = PageOutcome(NumResp).error
        /\ Len(requests) = NumResp

\* a parse error on the third page, after two full pages
C3_Witness ==
    /\ NumResp = 3
    /\ PageOutcome(3) = Err(ParseError(IF endpoint = "acled" THEN "event_date"
                                       ELSE "deleted_timestamp"))
    /\ pc = "done"
    /\ result.kind = "Err"

\* a body of neither shape: not JSON, not an object, an object with neither
\* `data` nor `error`, or a `data` with a record that lacks a field or holds
\* one that is no string
NeitherShape(a) ==
    /\ a.sent
    /\ \/ a.body.t # "obj"
       \/ "data" \notin DOMAIN a.body.v /\ "error" \notin DOMAIN a.body.v
       \/ /\ "error" \notin DOMAIN a.body.v
          /\ HasField(a.body, "data", "arr")
          /\ \E i \in 1..Len(a.body.v["data"].v) :
                /\ a.body.v["data"].v[i].item.t = "obj"
                /\ \E k \in FieldNames(DataFields(endpoint)) :
                       ~HasField(a.body.v["data"].v[i].item, k, "str")

(* C4 as claimed: a body that matches neither shape ends the fetch in an   *)
(* outcome that is none of the transport error, the API error and the      *)
(* parse error.                                                            *)
C4_HardFailure ==
    (NumResp > 0 /\ NeitherShape(Answer(NumResp))) =>
        /\ pc = "done"
        /\ result.kind = "Err" =>
              result.error.type \notin {"ReqwestError", "APIError", "ParseError"}

(* C4 as amended: a body that matches neither shape makes the fetch return *)
(* Err(Error::ReqwestError), the variant a transport error is returned in  *)
(* (here reqwest's decode error); it is no panic, and it is distinct from  *)
(* the API error and the parse error only.                                 *)
C4_DecodeError ==
    (NumResp > 0 /\ NeitherShape(Answer(NumResp))) =>
        /\ pc = "done"
        /\ result = Err(ReqwestError("decode"))

\* an object with `success` and `count` only, as the answer to the second request
C4_Witness ==
    /\ NumResp = 2
    /\ NeitherShape(Answer(2))
    /\ Answer(2).body.t = "obj"
    /\ pc = "done"
    /\ result.kind = "Err"

(* C5: Response::into of a success-shape envelope whose count differs from *)
(* the number of elements of data panics, and so does a failure-shape      *)
(* envelope whose count is not 0: neither gives Ok or an Error value.      *)
C5_CountIntegrity ==
    /\ (decOp # "idle" /\ decIn.variant = "Data"
        /\ ~CountIs(decIn.count, VecLen(decIn.data))) =>
          decOut = Panic
    /\ (decOp # "idle" /\ decIn.variant = "Error" /\ ~CountIs(decIn.count, 0)) =>
          decOut = Panic

\* two records that convert, under a count of three and success = true
C5_Witness ==
    /\ decOp = "acled"
    /\ decIn.variant = "Data"
    /\ decIn.success
    /\ decIn.count = U32(3)
    /\ Len(decIn.data) = 2
    /\ \A i \in 1..2 : AcledEvent_try_from(decIn.data[i].item).kind = "Ok"
    /\ decOut.kind = "Panic"

\* the body {success: false, count: 0, error: {message: m}}
IsFailureEnvelope(a) ==
    /\ a.sent
    /\ a.body.t = "obj"
    /\ "data" \notin DOMAIN a.body.v
    /\ HasField(a.body, "success", "bool") /\ a.body.v["success"].v = FALSE
    /\ HasField(a.body, "count", "num") /\ a.body.v["count"] = JNum(0)
    /\ HasField(a.body, "error", "obj")
    /\ HasField(a.body.v["error"], "message", "str")

(* C6: a failure envelope with count 0 decodes to the API error carrying   *)
(* exactly its message and no records, and the fetch that receives it, on  *)
(* whichever page, returns that API error.                                 *)
C6_ApiError ==
    (NumResp > 0 /\ IsFailureEnvelope(Answer(NumResp))) =>
        /\ PageOutcome(NumResp) = Err(APIError(Answer(NumResp).body.v["error"].v["message"].v))
        /\ pc = "done"
        /\ result = Err(APIError(Answer(NumResp).body.v["error"].v["message"].v))

\* "bad key" as the answer to the second request
C6_Witness ==
    /\ NumResp = 2
    /\ IsFailureEnvelope(Answer(2))
    /\ result = Err(APIError("bad key"))

\* the operator string of the four one-value comparison modes
RefOperator(tag) ==
    CASE tag = "Equal" -> "="
      [] tag = "Like" -> "LIKE"
      [] tag = "GreaterThan" -> ">"
      [] tag = "GreaterThanOrEqual" -> ">="

\* the reference table of the encoding of one filter value
RefPairs(n, w, ty) ==
    IF w.tag = "Unspecified" THEN <<>>
    ELSE IF w.tag = "Matches" THEN << <<n, as_parameter(ty, w.v)>> >>
    ELSE IF w.tag = "Between"
    THEN << <<n \o "_where", "BETWEEN">>,
            <<n, as_parameter(ty, w.a) \o "|" \o as_parameter(ty, w.b)>> >>
    ELSE << <<n \o "_where", RefOperator(w.tag)>>, <<n, as_parameter(ty, w.v)>> >>

(* C7: Where::as_parameters(n) is the reference table: nothing for         *)
(* Unspecified, one pair for Matches, and for Equal, Like, GreaterThan,    *)
(* GreaterThanOrEqual and Between the operator pair first and the value    *)
(* pair second.                                                            *)
C7_WhereTable ==
    encOp = "where" =>
        /\ encOut = RefPairs(encIn.name, encIn.w, encIn.ty)
        /\ encIn.w.tag = "Unspecified" <=> Len(encOut) = 0
        /\ encIn.w.tag = "Matches" <=> Len(encOut) = 1
        /\ encIn.w.tag \notin {"Unspecified", "Matches"} =>
              /\ Len(encOut) = 2
              /\ encOut[1][1] = encIn.name \o "_where"
              /\ encOut[1][2] \in {"=", "LIKE", ">", ">=", "BETWEEN"}
              /\ encOut[2][1] = encIn.name

\* a range of dates
C7_Witness ==
    /\ encOp = "where"
    /\ encIn.w.tag = "Between"
    /\ encOut = << <<"event_date_where", "BETWEEN">>,
                   <<"event_date", "2023-12-01|2024-02-28">> >>

\* the keys a field of the query may contribute
KeysOf(n) == {n, n \o "_where"}

(* C8: AcledQuery::as_parameters is the encodings of country,              *)
(* event_id_cnty, year, region, event_date and timestamp concatenated in   *)
(* that order; an Unspecified field contributes no pair; a region is       *)
(* rendered as its numeric code.                                           *)
C8_QueryOrder ==
    encOp = "acled" =>
        /\ encOut = RefPairs("country", encIn.country, "String")
                    \o RefPairs("event_id_cnty", encIn.id, "String")
                    \o RefPairs("year", encIn.year, "u32")
                    \o RefPairs("region", encIn.region, "Region")
                    \o RefPairs("event_date", encIn.date, "NaiveDate")
                    \o RefPairs("timestamp", encIn.timestamp, "u64")
        /\ \A f \in {<<"country", encIn.country>>, <<"event_id_cnty", encIn.id>>,
                     <<"year", encIn.year>>, <<"region", encIn.region>>,
                     <<"event_date", encIn.date>>, <<"timestamp", encIn.timestamp>>} :
              f[2] = Unspecified =>
                  \A j \in 1..Len(encOut) : encOut[j][1] \notin KeysOf(f[1])
        /\ encIn.region = Matches("MiddleAfrica") =>
              \E j \in 1..Len(encOut) : encOut[j] = <<"region", "2">>

\* the query of the repository's test: a region and a date
C8_Witness ==
    /\ encOp = "acled"
    /\ encIn = [AcledQuery_default EXCEPT !.region = Matches("MiddleAfrica"),
                                          !.date = GreaterThan(Date(2024, 2, 28))]
    /\ encOut = << <<"region", "2">>, <<"event_date_where", ">">>,
                   <<"event_date", "2024-02-28">> >>

\* the parsed fields of a raw record, in the converter's order
FieldOrder(ep) ==
    IF ep = "acled" THEN <<"event_date", "timestamp", "region", "latitude", "longitude">>
    ELSE <<"deleted_timestamp">>

FieldParses(f, raw) ==
    CASE f = "event_date" -> NaiveDate_parse_from_str(raw[f]).ok
      [] f \in {"timestamp", "deleted_timestamp"} -> u64_from_str(raw[f]).ok
      [] f = "region" -> Region_from_str(raw[f]).ok
      [] f \in {"latitude", "longitude"} -> f64_from_str(raw[f]).ok

BadFields(ep, raw) == {i \in 1..Len(FieldOrder(ep)) : ~FieldParses(FieldOrder(ep)[i], raw)}

BadRecords(ep, data) == {i \in 1..Len(data) : BadFields(ep, data[i].item) # {}}

(* C9: when records of a page fail conversion, Response::into gives no     *)
(* records but the parse error naming one field: the first failing field,  *)
(* in the converter's order, of the first failing record of the page.      *)
C9_FirstFailure ==
    (/\ decOp # "idle"
     /\ decIn.variant = "Data"
     /\ decIn.success
     /\ CountIs(decIn.count, VecLen(decIn.data))
     /\ BadRecords(decOp, decIn.data) # {}) =>
        decOut = Err(ParseError(
            FieldOrder(decOp)[MinOf(BadFields(decOp,
                decIn.data[MinOf(BadRecords(decOp, decIn.data))].item))]))

\* the first record fails on timestamp and longitude, the second on event_date
C9_Witness ==
    /\ decOp = "acled"
    /\ decIn.variant = "Data"
    /\ Len(decIn.data) = 2
    /\ BadFields("acled", decIn.data[1].item) = {2, 5}
    /\ BadFields("acled", decIn.data[2].item) = {1}
    /\ decOut = Err(ParseError("timestamp"))

(* C10: the fetch has ended exactly when the last page it met is an error  *)
(* or has a record count other than DEFAULT_LIMIT, every page before it    *)
(* being full; an empty page ends it with the records accumulated so far;  *)
(* and as long as every page is full it goes on to page 2, 3, ...          *)
C10_EndsAtFirstOffPage ==
    /\ pc = "done" <=> (NumResp > 0 /\ ~IsFull(NumResp))
    /\ \A i \in 1..(NumResp - 1) : IsFull(i)
    /\ (NumResp > 0 /\ PageOk(NumResp) /\ PageLen(NumResp) = 0) =>
          /\ pc = "done"
          /\ result = Ok(ConcatPages(NumResp - 1))
    /\ pc \in {"query", "await"} => page = NumResp + 1

\* an empty third page after two full ones
C10_Witness ==
    /\ NumResp = 3
    /\ PageOk(3)
    /\ PageLen(3) = 0
    /\ pc = "done"
    /\ result.kind = "Ok"
    /\ VecLen(result.events) = 2 * DEFAULT_LIMIT

====
